---- MODULE Spec2Model ----
(***************************************************************************)
(* Model of streamlit_app.py (Rezultati - HK Podravka): the name           *)
(* normaliser slugify, the two loaders load_sqlite and excel_to_frames,    *)
(* union_frames, pick_col, unique_sorted and the sidebar filter block.     *)
(*                                                                         *)
(* A Python str is a sequence of one-character strings, so that strip,     *)
(* lower, re.sub, re.search, endswith and "in" are computed character by   *)
(* character.  A DataFrame is a record [columns, rows]: columns is the     *)
(* sequence of column labels (pandas allows the same label twice) and each *)
(* row is the sequence of its cells, one per position of columns.          *)
(***************************************************************************)
EXTENDS Integers, Sequences, FiniteSets, TLC

VARIABLES
    pc,            \* position of the script run
    use_uploaded,  \* line 108: the toggle is on and a file has been uploaded
    source,        \* the tables / sheets of the file being read
    data_dict,     \* dict {name: DataFrame} as a sequence of [key, frame]
    warnings,      \* names reported with st.warning by load_sqlite
    df,            \* the unified DataFrame
    roles,         \* col_ime, col_prezime, col_klub, col_kat, col_natjecanje
    q,             \* text_input "Pretraga imena / prezimena"
    godine,        \* multiselect "Godina"
    kat,           \* multiselect "Kategorija"
    klub,          \* multiselect "Klub"
    fdf,           \* the filtered DataFrame
    slug_in,       \* argument of a slugify call chain
    slug_out,      \* results of slugify applied once, twice
    pick_cols,     \* df.columns given to a pick_col call
    pick_cands,    \* candidates given to a pick_col call
    pick_out,      \* result of the pick_col call
    uf_frames,     \* frames given to a union_frames call
    uf_out         \* result of the union_frames call

pipeVars  == <<pc, use_uploaded, source, data_dict, warnings, df, roles,
               q, godine, kat, klub, fdf>>
slugVars  == <<slug_in, slug_out>>
pickVars  == <<pick_cols, pick_cands, pick_out>>
unionVars == <<uf_frames, uf_out>>
vars == <<pipeVars, slugVars, pickVars, unionVars>>

-----------------------------------------------------------------------------
(* Characters and Python str operations                                    *)

Range(s) == {s[i] : i \in 1..Len(s)}

UpperLetters == <<"A","B","C","D","E","F","G","H","I","J","K","L","M",
                  "N","O","P","Q","R","S","T","U","V","W","X","Y","Z">>
LowerLetters == <<"a","b","c","d","e","f","g","h","i","j","k","l","m",
                  "n","o","p","q","r","s","t","u","v","w","x","y","z">>
DigitChars == <<"0","1","2","3","4","5","6","7","8","9">>

\* The characters of the model in code point order (Python compares str by
\* code point): tab, space, "!", "-", ".", digits, upper case, "_", lower case.
CodePoints == <<"\t", " ", "!", "-", ".">> \o DigitChars \o UpperLetters
              \o <<"_">> \o LowerLetters

Ord(c) == CHOOSE i \in 1..Len(CodePoints) : CodePoints[i] = c

IsDigit(c) == c \in Range(DigitChars)
IsSpace(c) == c \in {" ", "\t"}
\* \w of a Python 3 str pattern: letters, digits and the underscore.
IsWord(c) == c \in Range(UpperLetters) \cup Range(LowerLetters)
                   \cup Range(DigitChars) \cup {"_"}

LowerChar(c) ==
    IF c \in Range(UpperLetters)
    THEN LowerLetters[CHOOSE i \in 1..26 : UpperLetters[i] = c]
    ELSE c

\* str.lower()
Lower(s) == [i \in 1..Len(s) |-> LowerChar(s[i])]

\* str.strip(): leading and trailing whitespace removed.
Strip(s) ==
    LET keep == {i \in 1..Len(s) : ~IsSpace(s[i])}
    IN  IF keep = {} THEN <<>>
        ELSE LET lo == CHOOSE i \in keep : \A j \in keep : i <= j
                 hi == CHOOSE i \in keep : \A j \in keep : j <= i
             IN  SubSeq(s, lo, hi)

\* re.sub(r"[^\w\s-]", "", n)
StripPunct(s) ==
    LET Keep(c) == IsWord(c) \/ IsSpace(c) \/ c = "-"
    IN  SelectSeq(s, Keep)

\* re.sub(r"[\s\-]+", "_", n): every maximal run of whitespace and hyphens
\* becomes one underscore.
RECURSIVE CollapseRuns(_)
CollapseRuns(s) ==
    LET Sep(c) == IsSpace(c) \/ c = "-"
    IN  IF s = <<>> THEN <<>>
        ELSE IF Sep(s[1])
             THEN IF Len(s) > 1 /\ Sep(s[2])
                  THEN CollapseRuns(Tail(s))
                  ELSE <<"_">> \o CollapseRuns(Tail(s))
             ELSE <<s[1]>> \o CollapseRuns(Tail(s))

\* A buggy variant of slugify: strip("_ ") in place of strip().
StripAlso(s) ==
    LET keep == {i \in 1..Len(s) : ~IsSpace(s[i]) /\ s[i] # "_"}
    IN  IF keep = {} THEN <<>>
        ELSE LET lo == CHOOSE i \in keep : \A j \in keep : i <= j
                 hi == CHOOSE i \in keep : \A j \in keep : j <= i
             IN  SubSeq(s, lo, hi)

slugify_strip_underscore(name) ==
    CollapseRuns(StripPunct(Lower(StripAlso(name))))

slugify(name) ==
    CollapseRuns(StripPunct(Lower(Strip(name))))

\* c.endswith(suffix)
EndsWith(c, suffix) ==
    /\ Len(suffix) <= Len(c)
    /\ SubSeq(c, Len(c) - Len(suffix) + 1, Len(c)) = suffix

\* sub in c  (substring test)
Contains(c, sub) ==
    \E i \in 1..(Len(c) - Len(sub) + 1) : SubSeq(c, i, i + Len(sub) - 1) = sub

\* Lexicographic order of two str, as sorted() compares them.
RECURSIVE StrLess(_, _)
StrLess(a, b) ==
    IF b = <<>> THEN FALSE
    ELSE IF a = <<>> THEN TRUE
    ELSE IF a[1] = b[1] THEN StrLess(Tail(a), Tail(b))
    ELSE Ord(a[1]) < Ord(b[1])

\* sorted(S) for a set S of str
RECURSIVE Sorted(_)
Sorted(S) ==
    IF S = {} THEN <<>>
    ELSE LET m == CHOOSE x \in S : \A y \in S : y = x \/ StrLess(x, y)
         IN  <<m>> \o Sorted(S \ {m})

\* All sequences over A of length at most n.
SeqsUpTo(A, n) == UNION {[1..k -> A] : k \in 0..n}

-----------------------------------------------------------------------------
(* Cells and DataFrames                                                    *)

\* A cell is text, a number (v is its digits) or the absent marker
\* (pd.NA / NaN).
Txt(s) == [k |-> "str", v |-> s]
Num(s) == [k |-> "num", v |-> s]
Absent == [k |-> "na", v |-> <<>>]

\* The two injected column labels, "izvor_tablice" and "godina".
C_izvor  == <<"i","z","v","o","r","_","t","a","b","l","i","c","e">>
C_godina == <<"g","o","d","i","n","a">>

\* pd.DataFrame()
EmptyFrame == [columns |-> <<>>, rows |-> <<>>]

\* The positions of label c in a frame's columns.
Positions(columns, c) == {i \in 1..Len(columns) : columns[i] = c}

\* df.columns.is_unique
UniqueLabels(columns) ==
    \A i, j \in 1..Len(columns) : columns[i] = columns[j] => i = j

\* df.columns = [slugify(str(c)) for c in df.columns]: the labels are
\* replaced position by position, the cells stay where they are.
RenameColumns(f) ==
    [columns |-> [i \in 1..Len(f.columns) |-> slugify(f.columns[i])],
     rows    |-> f.rows]

\* df[label] = value for a scalar value: every column carrying the label is
\* overwritten; a label the frame does not have is appended as a new column.
SetItem(f, label, value) ==
    IF Positions(f.columns, label) # {}
    THEN [columns |-> f.columns,
          rows    |-> [r \in 1..Len(f.rows) |->
                         [i \in 1..Len(f.columns) |->
                            IF f.columns[i] = label THEN value
                            ELSE f.rows[r][i]]]]
    ELSE [columns |-> Append(f.columns, label),
          rows    |-> [r \in 1..Len(f.rows) |-> Append(f.rows[r], value)]]

\* m = re.search(r"(20\d{2})", t); int(m.group(1)) if m else pd.NA
YearOf(t) ==
    LET hits == {i \in 1..(Len(t) - 3) :
                   /\ t[i] = "2" /\ t[i + 1] = "0"
                   /\ IsDigit(t[i + 2]) /\ IsDigit(t[i + 3])}
    IN  IF hits = {} THEN Absent
        ELSE LET i == CHOOSE h \in hits : \A g \in hits : h <= g
             IN  Num(SubSeq(t, i, i + 3))

\* data[key] = frame on a dict kept as a sequence of [key, frame] in
\* insertion order: an existing key keeps its place and gets the new frame.
DictSet(d, key, frame) ==
    IF \E i \in 1..Len(d) : d[i].key = key
    THEN [i \in 1..Len(d) |->
            IF d[i].key = key THEN [key |-> key, frame |-> frame] ELSE d[i]]
    ELSE Append(d, [key |-> key, frame |-> frame])

\* list(data_dict.values())
Values(d) == [i \in 1..Len(d) |-> d[i].frame]

\* The body of both loaders' loops after the read: normalised labels, the
\* origin column set to `origin`, the year taken from `name`.
Tagged(raw, origin, name) ==
    SetItem(SetItem(RenameColumns([columns |-> raw.columns, rows |-> raw.rows]),
                    C_izvor, Txt(origin)),
            C_godina, YearOf(name))

\* f"SELECT * FROM {t}" parses only for a name that is a bare identifier: a
\* letter or underscore followed by word characters.
BareIdentifier(t) ==
    /\ t # <<>>
    /\ ~IsDigit(t[1])
    /\ \A i \in 1..Len(t) : IsWord(t[i])

\* pd.read_sql raises for table raw (caught by the loop's try/except).
ReadSqlRaises(raw) == ~raw.readable \/ ~BareIdentifier(raw.name)

\* load_sqlite, lines 41-59: tables is the list of the database's tables
\* (a missing file returns {} like a database without tables).
\* The result is [data, warned, raised]; nothing escapes the try/except.
RECURSIVE load_sqlite_loop(_, _, _)
load_sqlite_loop(tables, data, warned) ==
    IF tables = <<>>
    THEN [data |-> data, warned |-> warned, raised |-> FALSE]
    ELSE LET t == tables[1]
         IN  IF ReadSqlRaises(t)
             THEN load_sqlite_loop(Tail(tables), data, Append(warned, t.name))
             ELSE load_sqlite_loop(Tail(tables),
                      DictSet(data, t.name, Tagged(t, t.name, t.name)),
                      warned)

load_sqlite(tables) == load_sqlite_loop(tables, <<>>, <<>>)

\* excel_to_frames, lines 65-74: xls.parse(sheet) is not guarded, so a sheet
\* that cannot be parsed makes the whole call raise and nothing is returned.
RECURSIVE excel_loop(_, _)
excel_loop(sheets, data) ==
    IF sheets = <<>>
    THEN [data |-> data, warned |-> <<>>, raised |-> FALSE]
    ELSE LET s == sheets[1]
         IN  IF ~s.readable
             THEN [data |-> <<>>, warned |-> <<>>, raised |-> TRUE]
             ELSE excel_loop(Tail(sheets),
                      DictSet(data, slugify(s.name),
                              Tagged(s, slugify(s.name), s.name)))

excel_to_frames(sheets) == excel_loop(sheets, <<>>)

-----------------------------------------------------------------------------
(* union_frames                                                            *)

\* set().union(*[f.columns for f in frames])
AllLabels(frames) == UNION {Range(frames[i].columns) : i \in 1..Len(frames)}

\* f.reindex(columns=all_cols) raises ValueError ("cannot reindex on an axis
\* with duplicate labels") for a frame whose labels are not unique.
ReindexRaises(f) == ~UniqueLabels(f.columns)

\* A buggy variant of reindex: an inner join, which drops the labels f lacks.
ReindexInner(f, all_cols) ==
    LET Has(c) == Positions(f.columns, c) # {}
        kept == SelectSeq(all_cols, Has)
    IN  [columns |-> kept,
         rows    |-> [r \in 1..Len(f.rows) |->
                        [i \in 1..Len(kept) |->
                           f.rows[r][CHOOSE p \in Positions(f.columns, kept[i]) : TRUE]]]]

\* f.reindex(columns=all_cols): the cells of f's column for each label of
\* all_cols, the absent marker for a label f lacks.
Reindex(f, all_cols) ==
    [columns |-> all_cols,
     rows    |-> [r \in 1..Len(f.rows) |->
                    [i \in 1..Len(all_cols) |->
                       IF Positions(f.columns, all_cols[i]) # {}
                       THEN f.rows[r][CHOOSE p \in Positions(f.columns, all_cols[i]) : TRUE]
                       ELSE Absent]]]

\* A buggy variant of concat that drops repeated rows (drop_duplicates).
RECURSIVE ConcatRowsDedup(_)
ConcatRowsDedup(aligned) ==
    IF aligned = <<>> THEN <<>>
    ELSE LET rest == ConcatRowsDedup(SubSeq(aligned, 1, Len(aligned) - 1))
             last == aligned[Len(aligned)].rows
             Add(acc, row) == IF row \in Range(acc) THEN acc ELSE Append(acc, row)
             AddAll[n \in 0..Len(last)] ==
                 IF n = 0 THEN rest ELSE Add(AddAll[n - 1], last[n])
         IN  AddAll[Len(last)]

\* pd.concat(aligned, ignore_index=True) of frames that share all_cols
RECURSIVE ConcatRows(_)
ConcatRows(aligned) ==
    IF aligned = <<>> THEN <<>>
    ELSE aligned[1].rows \o ConcatRows(Tail(aligned))

\* union_frames raises (the reindex of line 90 does)
union_frames_raises(frames) ==
    \E i \in 1..Len(frames) : ReindexRaises(frames[i])

\* union_frames, lines 85-92, for frames on which it does not raise
union_frames(frames) ==
    IF frames = <<>> THEN EmptyFrame
    ELSE LET all_cols == Sorted(AllLabels(frames))
             aligned  == [i \in 1..Len(frames) |-> Reindex(frames[i], all_cols)]
         IN  [columns |-> all_cols, rows |-> ConcatRows(aligned)]

\* df.empty: an axis of length 0
IsEmpty(f) == f.columns = <<>> \/ f.rows = <<>>

-----------------------------------------------------------------------------
(* pick_col and unique_sorted                                              *)

\* Python's None
None == <<"None">>

\* c == cand or c.endswith(f"_{cand}") or cand in c
Matches(c, cand) ==
    \/ c = cand
    \/ EndsWith(c, <<"_">> \o cand)
    \/ Contains(c, cand)

\* pick_col, lines 76-83.  cols is a set, whose iteration order is not fixed
\* (str hashes are randomised per process), so for the first candidate that
\* some column matches every matching column is a possible return value.
\* The operator yields the set of possible return values.
RECURSIVE pick_col(_, _)
pick_col(columns, candidates) ==
    IF candidates = <<>> THEN {None}
    ELSE LET hits == {c \in Range(columns) : Matches(c, candidates[1])}
         IN  IF hits # {} THEN hits
             ELSE pick_col(columns, Tail(candidates))

\* The cells of column col of frame f, in row order (f[col] for a unique
\* label).
Column(f, col) ==
    LET p == CHOOSE i \in Positions(f.columns, col) : TRUE
    IN  [r \in 1..Len(f.rows) |-> f.rows[r][p]]

\* astype(str) of a cell that is not absent
Str(cell) == cell.v

\* unique_sorted, lines 94-100: the set of the non-blank str() forms of the
\* column's values that are not absent (the list is sorted; only its
\* members matter to the multiselect options).
unique_sorted(f, col) ==
    IF col # None /\ col # <<>> /\ Positions(f.columns, col) # {}
    THEN {Str(c) : c \in {x \in Range(Column(f, col)) :
                            x.k # "na" /\ Strip(Str(x)) # <<>>}}
    ELSE {}

-----------------------------------------------------------------------------
(* The filter block, lines 139-169                                         *)

\* The candidate lists of lines 126-129 and 134.
CandIme == << <<"i","m","e">>,
              <<"i","m","e","_","p","r","e","z","i","m","e">>,
              <<"s","p","o","r","t","a","s">>,
              <<"n","a","t","j","e","c","a","t","e","l","j">>,
              <<"a","t","h","l","e","t","e">>,
              <<"c","o","m","p","e","t","i","t","o","r">> >>
CandPrezime == << <<"p","r","e","z","i","m","e">>,
                  <<"s","u","r","n","a","m","e">>,
                  <<"l","a","s","t","_","n","a","m","e">> >>
CandKlub == << <<"k","l","u","b">>, <<"c","l","u","b">>, <<"t","e","a","m">> >>
CandKat == << <<"k","a","t","e","g","o","r","i","j","a">>,
              <<"k","a","t">>,
              <<"d","i","v","i","z","i","j","a">>,
              <<"u","z","r","a","s","t">>,
              <<"a","g","e","_","g","r","o","u","p">> >>
CandNatjecanje == << <<"n","a","t","j","e","c","a","n","j","e">>,
                     <<"t","u","r","n","i","r">>,
                     <<"d","o","g","a","d","a","j">>,
                     <<"e","v","e","n","t">>,
                     <<"n","a","z","i","v","_","n","a","t","j","e","c","a","n","j","e">>,
                     <<"p","r","i","r","e","d","b","a">>,
                     <<"c","o","m","p","e","t","i","t","o","n">> >>

\* The role mappings the script can compute for frame f (one per outcome of
\* the set iterations inside pick_col).  col_datum, col_bodovi, col_medalja
\* and col_plasman only order the displayed columns and are left out.
RoleMappings(f) ==
    [col_ime        : pick_col(f.columns, CandIme),
     col_prezime    : pick_col(f.columns, CandPrezime),
     col_klub       : pick_col(f.columns, CandKlub),
     col_kat        : pick_col(f.columns, CandKat),
     col_natjecanje : pick_col(f.columns, CandNatjecanje)]

\* g_sel, line 139: the years present in the data (a sorted list; its
\* members are the multiselect's options and its default).
g_sel(f) ==
    IF Positions(f.columns, C_godina) # {}
    THEN {c \in Range(Column(f, C_godina)) : c.k # "na"}
    ELSE {}

\* Truthiness of a pick_col result: neither None nor "".
Truthy(col) == col # None /\ col # <<>>

\* col in fdf.columns
InColumns(f, col) == Positions(f.columns, col) # {}

\* fdf[mask]: the rows whose index satisfies Keep, in order.
RECURSIVE SelectRows(_, _)
SelectRows(rows, keep) ==
    IF rows = <<>> THEN <<>>
    ELSE IF keep[1]
         THEN <<rows[1]>> \o SelectRows(Tail(rows), Tail(keep))
         ELSE SelectRows(Tail(rows), Tail(keep))

Masked(f, keep) == [columns |-> f.columns, rows |-> SelectRows(f.rows, keep)]

\* series.isin(values)
IsIn(series, values) == [r \in 1..Len(series) |-> series[r] \in values]

\* series.isin(values) for values that are str (the multiselect options of
\* unique_sorted): a cell that is a number or absent equals no str.
IsInStr(series, values) ==
    [r \in 1..Len(series) |-> series[r].k = "str" /\ series[r].v \in values]

\* re.search(term, text, re.IGNORECASE) for a pattern made of literal
\* characters and ".", which matches any character.
RegexSearch(term, text) ==
    \E i \in 1..(Len(text) - Len(term) + 1) :
        \A j \in 1..Len(term) :
            \/ term[j] = "."
            \/ LowerChar(term[j]) = LowerChar(text[i + j - 1])

\* A buggy variant of contains_safe: case=True.
RegexSearchCase(term, text) ==
    \E i \in 1..(Len(text) - Len(term) + 1) :
        \A j \in 1..Len(term) :
            term[j] = "." \/ term[j] = text[i + j - 1]

contains_case_sensitive(series, term) ==
    [r \in 1..Len(series) |->
        CASE series[r].k = "na"  -> RegexSearchCase(term, <<>>)
          [] series[r].k = "str" -> RegexSearchCase(term, series[r].v)
          [] OTHER               -> FALSE]

\* contains_safe, lines 152-153, element by element: fillna("") turns an
\* absent cell into "", .str.contains yields NaN for a cell that is not a
\* str, and na=False turns that NaN into False.
contains_safe(series, term) ==
    [r \in 1..Len(series) |->
        CASE series[r].k = "na"  -> RegexSearch(term, <<>>)
          [] series[r].k = "str" -> RegexSearch(term, series[r].v)
          [] OTHER               -> FALSE]

\* The .str accessor raises AttributeError ("Can only use .str accessor
\* with string values") when, after fillna(""), the series holds numbers
\* only.  The series filtered here is never empty: the year filter keeps
\* the rows of at least one year that occurs in the data.
StrAccessorRaises(series) ==
    /\ series # <<>>
    /\ \A r \in 1..Len(series) : series[r].k = "num"

\* A buggy variant of the year filter: an empty selection selects nothing.
year_filter_strict(f, g) ==
    IF InColumns(f, C_godina)
    THEN Masked(f, IsIn(Column(f, C_godina), g))
    ELSE f

\* Lines 149-150
year_filter(f, g) ==
    IF InColumns(f, C_godina) /\ g # {}
    THEN Masked(f, IsIn(Column(f, C_godina), g))
    ELSE f

\* The name columns lines 155-164 search in frame f.
NameCols(f, r) ==
    IF Truthy(r.col_ime) /\ Truthy(r.col_prezime)
       /\ InColumns(f, r.col_ime) /\ InColumns(f, r.col_prezime)
    THEN <<r.col_ime, r.col_prezime>>
    ELSE SelectSeq(<<r.col_ime, r.col_prezime>>, LAMBDA c : InColumns(f, c))

\* The free-text block is entered: q and (col_ime or col_prezime)
TextFilterOn(r, term) == term # <<>> /\ (Truthy(r.col_ime) \/ Truthy(r.col_prezime))

\* Lines 155-164 raise
text_filter_raises(f, r, term) ==
    /\ TextFilterOn(r, term)
    /\ \E i \in 1..Len(NameCols(f, r)) :
          StrAccessorRaises(Column(f, NameCols(f, r)[i]))

\* Lines 155-164 when they do not raise
text_filter(f, r, term) ==
    LET cols == NameCols(f, r)
    IN  IF TextFilterOn(r, term) /\ cols # <<>>
        THEN Masked(f, [n \in 1..Len(f.rows) |->
                          \E i \in 1..Len(cols) :
                              contains_safe(Column(f, cols[i]), term)[n]])
        ELSE f

\* Lines 166-169, for one of the two multiselects
member_filter(f, col, chosen) ==
    IF chosen # {} /\ InColumns(f, col)
    THEN Masked(f, IsInStr(Column(f, col), chosen))
    ELSE f

\* The whole filter block raises
filter_raises(f, r, term, g) == text_filter_raises(year_filter(f, g), r, term)

\* fdf after line 169
filtered(f, r, term, g, ka, kl) ==
    member_filter(
        member_filter(text_filter(year_filter(f, g), r, term), r.col_kat, ka),
        r.col_klub, kl)

-----------------------------------------------------------------------------
(* Bounds and input pools                                                  *)

MaxLen      == 4   \* longest argument of slugify
MaxPickCols == 3   \* most columns of a frame given to pick_col
MaxCands    == 2   \* longest candidate list given to pick_col
MaxFrames   == 2   \* longest list given to union_frames
MaxTables   == 2   \* most tables / sheets of a source file

\* All subsets of S with at most n members.
RECURSIVE SubsetsUpTo(_, _)
SubsetsUpTo(S, n) ==
    IF n = 0 THEN {{}}
    ELSE LET prev == SubsetsUpTo(S, n - 1)
         IN  prev \cup {p \cup {x} : p \in prev, x \in S}

\* The lists of at most n tables of pool S that one file can hold: a
\* database or a workbook has no two tables whose names differ by case only.
RECURSIVE TableLists(_, _)
TableLists(S, n) ==
    IF n = 0 THEN {<<>>}
    ELSE LET prev == TableLists(S, n - 1)
         IN  prev \cup
             {z \in {Append(p, x) : p \in prev, x \in S} :
                \A i \in 1..(Len(z) - 1) : Lower(z[i].name) # Lower(z[Len(z)].name)}

\* Characters of the arguments of slugify: a lower and an upper case letter,
\* the two separators, the underscore and a character the filter removes.
SlugChars == {"a", "B", " ", "-", "_", "!"}

\* Labels and keywords of the pick_col calls
L_ime_sportasa == <<"i","m","e","_","s","p","o","r","t","a","s","a">>
L_klub_naziv   == <<"k","l","u","b","_","n","a","z","i","v">>
L_klub         == <<"k","l","u","b">>
PickLabels ==
    { <<"a">>, <<"b">>, <<"x","_","a">>, <<"x","_","b">>, <<"x","a">>,
      <<"b","x">>, <<"a","b">>, <<"x">>,
      L_ime_sportasa, L_klub_naziv, L_klub }
PickKeywords == { <<"a">>, <<"b">>, L_klub, <<"c","l","u","b">>,
                  <<"t","e","a","m">> }

\* Frames of the union_frames calls.  The last one carries a label twice.
UX == Txt(<<"x">>)
UY == Txt(<<"y">>)
UnionFramePool ==
    { [columns |-> <<>>, rows |-> <<>>],
      [columns |-> << <<"a">> >>, rows |-> <<>>],
      [columns |-> << <<"a">> >>, rows |-> << <<UX>> >>],
      [columns |-> << <<"a">> >>, rows |-> << <<UY>>, <<UX>> >>],
      [columns |-> << <<"b">> >>, rows |-> << <<UX>> >>],
      [columns |-> << <<"b">>, <<"a">> >>, rows |-> << <<UX, UY>> >>],
      [columns |-> << <<"b">>, <<"a">> >>, rows |-> << <<UY, UY>>, <<UX, Absent>> >>],
      [columns |-> << <<"a">>, <<"c">> >>, rows |-> << <<UX, UX>>, <<UX, UX>> >>],
      [columns |-> << <<"c">> >>, rows |-> << <<Absent>> >>],
      [columns |-> << <<"a">>, <<"a">> >>, rows |-> << <<UX, UY>> >>] }

-----------------------------------------------------------------------------
(* Calls of the pure functions                                             *)

PipeIdle ==
    /\ pc = "idle" /\ use_uploaded = FALSE /\ source = <<>>
    /\ data_dict = <<>> /\ warnings = <<>> /\ df = EmptyFrame
    /\ roles = <<>> /\ q = <<>> /\ godine = {} /\ kat = {} /\ klub = {}
    /\ fdf = EmptyFrame
SlugIdle  == slug_in = <<>> /\ slug_out = <<>>
PickIdle  == pick_cols = <<>> /\ pick_cands = <<>> /\ pick_out = <<>>
UnionIdle == uf_frames = <<>> /\ uf_out = [state |-> "idle", frame |-> EmptyFrame]

\* slugify applied to its own result: slug_out holds slugify(slug_in) and
\* then slugify(slugify(slug_in)).
InitSlugify ==
    /\ PipeIdle /\ PickIdle /\ UnionIdle
    /\ slug_in \in SeqsUpTo(SlugChars, MaxLen)
    /\ slug_out = <<>>

SlugifyCall ==
    /\ Len(slug_out) < 2
    /\ slug_out' = Append(slug_out,
                     slugify(IF slug_out = <<>> THEN slug_in
                             ELSE slug_out[Len(slug_out)]))
    /\ UNCHANGED <<slug_in, pipeVars, pickVars, unionVars>>

NextSlugify == SlugifyCall
SpecSlugify == InitSlugify /\ [][NextSlugify]_vars

\* One call pick_col(df, candidates); pick_out is <<>> before the call and
\* <<result>> after it.
InitPickCol ==
    /\ PipeIdle /\ SlugIdle /\ UnionIdle
    /\ pick_cols \in {Sorted(S) : S \in SubsetsUpTo(PickLabels, MaxPickCols)}
    /\ pick_cands \in SeqsUpTo(PickKeywords, MaxCands) \cup {CandKlub}
    /\ pick_out = <<>>

PickColCall ==
    /\ pick_out = <<>>
    /\ \E c \in pick_col(pick_cols, pick_cands) : pick_out' = <<c>>
    /\ UNCHANGED <<pick_cols, pick_cands, pipeVars, slugVars, unionVars>>

NextPickCol == PickColCall
SpecPickCol == InitPickCol /\ [][NextPickCol]_vars

\* One call union_frames(frames).
InitUnion ==
    /\ PipeIdle /\ SlugIdle /\ PickIdle
    /\ uf_frames \in SeqsUpTo(UnionFramePool, MaxFrames)
    /\ uf_out = [state |-> "pending", frame |-> EmptyFrame]

UnionCall ==
    /\ uf_out.state = "pending"
    /\ uf_out' = IF union_frames_raises(uf_frames)
                 THEN [state |-> "raised", frame |-> EmptyFrame]
                 ELSE [state |-> "returned", frame |-> union_frames(uf_frames)]
    /\ UNCHANGED <<uf_frames, pipeVars, slugVars, pickVars>>

NextUnion == UnionCall
SpecUnion == InitUnion /\ [][NextUnion]_vars

-----------------------------------------------------------------------------
(* The script run: load, unify, resolve the roles, filter                  *)

\* Raw names, labels and cells of the source files
N_2021  == <<"2","0","2","1">>
N_L2022 == <<"L","2","0","2","2">>
N_Reg   == <<"R","e","g">>
N_20p21 == <<"2","0",".","2","1">>
R_Ime     == <<"I","m","e">>
R_ImeBang == <<"i","m","e","!">>
R_Prezime == <<"P","r","e","z","i","m","e">>
R_Klub    == <<"K","l","u","b">>
R_Kat     == <<"K","a","t">>
R_Event   == <<"E","v","e","n","t">>
V_An == Txt(<<"A","n">>)
V_b  == Txt(<<"b">>)
V_1  == Num(<<"1">>)

RawTable(n, cols, rows, ok) ==
    [name |-> n, columns |-> cols, rows |-> rows, readable |-> ok]

\* Tables of the files the loaders are run on alone: readable ones with two
\* columns, with two columns that normalise to one label, with one column,
\* and one that cannot be read.
LoadPool ==
    UNION {
      { RawTable(n, <<R_Ime, R_Klub>>, << <<V_An, V_b>> >>, TRUE),
        RawTable(n, <<R_Ime, R_Klub>>, << <<V_An, V_b>>, <<V_1, Absent>> >>, TRUE),
        RawTable(n, <<R_Ime, R_ImeBang>>, << <<V_An, V_b>> >>, TRUE),
        RawTable(n, <<R_Ime, R_ImeBang>>, << <<V_An, V_b>>, <<V_1, Absent>> >>, TRUE),
        RawTable(n, <<R_Klub>>, << <<V_An>> >>, TRUE),
        RawTable(n, <<R_Klub>>, << <<V_b>>, <<V_1>> >>, TRUE),
        RawTable(n, <<R_Klub>>, << <<V_An>> >>, FALSE) }
      : n \in {N_2021, N_L2022, N_Reg, N_20p21} }

\* Tables of the files the whole script is run on.
SourcePool ==
    UNION {
      { RawTable(n, <<R_Ime, R_Event>>, << <<V_An, V_b>> >>, TRUE),
        RawTable(n, <<R_Ime, R_Prezime>>, << <<V_b, Absent>>, <<V_1, V_An>> >>, TRUE),
        RawTable(n, <<R_Kat, R_Klub>>, << <<V_b, V_An>>, <<V_1, V_b>> >>, TRUE),
        RawTable(n, <<R_Ime>>, << <<V_1>> >>, TRUE) }
      : n \in {N_2021, N_L2022, N_Reg} }

\* Queries typed into the search box: literal characters and "."
QueryPool == { <<>>, <<"a">>, <<"b">>, <<".">>, <<"1">> }

NotCalled == SlugIdle /\ PickIdle /\ UnionIdle

InitRun(pool) ==
    /\ pc = "start"
    /\ use_uploaded \in BOOLEAN
    /\ source \in TableLists(pool, MaxTables)
    /\ data_dict = <<>> /\ warnings = <<>> /\ df = EmptyFrame
    /\ roles = <<>> /\ q = <<>> /\ godine = {} /\ kat = {} /\ klub = {}
    /\ fdf = EmptyFrame
    /\ NotCalled

Init == InitRun(SourcePool)

\* Line 111: data_dict = load_sqlite(default_db_path)
LoadSqlite ==
    /\ pc = "start" /\ ~use_uploaded
    /\ LET r == load_sqlite(source)
       IN  /\ data_dict' = r.data
           /\ warnings' = r.warned
           /\ pc' = "loaded"
    /\ UNCHANGED <<use_uploaded, source, df, roles, q, godine, kat, klub, fdf,
                   slugVars, pickVars, unionVars>>

\* Line 109: data_dict = excel_to_frames(uploaded.getvalue()); an exception
\* of xls.parse ends the script run.
LoadExcel ==
    /\ pc = "start" /\ use_uploaded
    /\ LET r == excel_to_frames(source)
       IN  /\ data_dict' = r.data
           /\ warnings' = r.warned
           /\ pc' = IF r.raised THEN "crashed" ELSE "loaded"
    /\ UNCHANGED <<use_uploaded, source, df, roles, q, godine, kat, klub, fdf,
                   slugVars, pickVars, unionVars>>

\* Lines 113-115: no table loaded, st.stop()
NoTables ==
    /\ pc = "loaded" /\ data_dict = <<>>
    /\ pc' = "stopped"
    /\ UNCHANGED <<use_uploaded, source, data_dict, warnings, df, roles, q,
                   godine, kat, klub, fdf, slugVars, pickVars, unionVars>>

\* Lines 119-123: df = union_frames(frames); st.stop() when df.empty
Union ==
    /\ pc = "loaded" /\ data_dict # <<>>
    /\ IF union_frames_raises(Values(data_dict))
       THEN pc' = "crashed" /\ df' = df
       ELSE /\ df' = union_frames(Values(data_dict))
            /\ pc' = IF IsEmpty(df') THEN "stopped" ELSE "unified"
    /\ UNCHANGED <<use_uploaded, source, data_dict, warnings, roles, q,
                   godine, kat, klub, fdf, slugVars, pickVars, unionVars>>

\* Lines 126-146: the roles are resolved and the widgets show their
\* defaults: empty query, every year of the data, no category, no club.
Resolve ==
    /\ pc = "unified"
    /\ \E r \in RoleMappings(df) : roles' = r
    /\ q' = <<>>
    /\ godine' = g_sel(df)
    /\ kat' = {}
    /\ klub' = {}
    /\ pc' = "filter"
    /\ UNCHANGED <<use_uploaded, source, data_dict, warnings, df, fdf,
                   slugVars, pickVars, unionVars>>

\* Lines 148-169
Filter ==
    /\ pc = "filter"
    /\ IF filter_raises(df, roles, q, godine)
       THEN pc' = "raised" /\ fdf' = fdf
       ELSE /\ fdf' = filtered(df, roles, q, godine, kat, klub)
            /\ pc' = "shown"
    /\ UNCHANGED <<use_uploaded, source, data_dict, warnings, df, roles, q,
                   godine, kat, klub, slugVars, pickVars, unionVars>>

\* A widget change reruns the script: the loaders are cached and df and the
\* roles are recomputed to the same values, fdf is computed anew.
Rerun ==
    /\ pc \in {"shown", "raised"}
    /\ pc' = "filter"
    /\ fdf' = EmptyFrame
    /\ UNCHANGED <<use_uploaded, source, data_dict, warnings, df, roles,
                   slugVars, pickVars, unionVars>>

ChangeQuery ==
    /\ Rerun
    /\ \E t \in QueryPool \ {q} : q' = t
    /\ UNCHANGED <<godine, kat, klub>>

ChangeYears ==
    /\ Rerun
    /\ \E g \in (SUBSET g_sel(df)) \ {godine} : godine' = g
    /\ UNCHANGED <<q, kat, klub>>

ChangeKat ==
    /\ Rerun
    /\ \E k \in (SUBSET unique_sorted(df, roles.col_kat)) \ {kat} : kat' = k
    /\ UNCHANGED <<q, godine, klub>>

ChangeKlub ==
    /\ Rerun
    /\ \E k \in (SUBSET unique_sorted(df, roles.col_klub)) \ {klub} : klub' = k
    /\ UNCHANGED <<q, godine, kat>>

Next ==
    \/ LoadSqlite
    \/ LoadExcel
    \/ NoTables
    \/ Union
    \/ Resolve
    \/ Filter
    \/ ChangeQuery
    \/ ChangeYears
    \/ ChangeKat
    \/ ChangeKlub

Spec == Init /\ [][Next]_vars

\* The loaders alone, on files that may hold unreadable tables and columns
\* whose names normalise to the same label.
InitLoad == InitRun(LoadPool)
NextLoad == LoadSqlite \/ LoadExcel
SpecLoad == InitLoad /\ [][NextLoad]_vars

-----------------------------------------------------------------------------
(* Claims about the pure functions                                         *)

\* C4: slugify is idempotent and total: slugify(slugify(x)) = slugify(x)
\* for every text x, every result is a text, and "" maps to "".
C4_SlugifyIdempotentTotal ==
    /\ \A i \in 1..Len(slug_out) :
          \A j \in 1..Len(slug_out[i]) : slug_out[i][j] \in Range(CodePoints)
    /\ Len(slug_out) = 2 => slug_out[2] = slug_out[1]
    /\ (slug_in = <<>> /\ Len(slug_out) >= 1) => slug_out[1] = <<>>

\* " B!-" has been normalised twice: "b_" both times.
C4_Witness ==
    /\ slug_in = <<" ", "B", "!", "-">>
    /\ slug_out = << <<"b", "_">>, <<"b", "_">> >>

\* C5: pick_col returns a later keyword's column only when no column matches
\* an earlier keyword; for the deciding keyword an exact or "_<keyword>"
\* suffix match is chosen before a mere substring match; the result is None
\* exactly when no keyword/column pair matches; {ime_sportasa, klub_naziv}
\* with [klub, club, team] resolves to klub_naziv.
C5_PickColPriority ==
    pick_out # <<>> =>
      LET r == pick_out[1]
          cols == Range(pick_cols)
          AnyMatch(k) == \E c \in cols : Matches(c, pick_cands[k])
          Strong(c, k) == c = pick_cands[k] \/ EndsWith(c, <<"_">> \o pick_cands[k])
      IN  /\ (r = None) <=> ~\E k \in 1..Len(pick_cands) : AnyMatch(k)
          /\ r # None =>
               /\ r \in cols
               /\ \E k \in 1..Len(pick_cands) :
                     /\ Matches(r, pick_cands[k])
                     /\ \A e \in 1..(k - 1) : ~AnyMatch(e)
                     /\ (\E c \in cols : Strong(c, k)) => Strong(r, k)
          /\ (cols = {L_ime_sportasa, L_klub_naziv} /\ pick_cands = CandKlub)
               => r = L_klub_naziv

\* The sum of the frames' row counts
RECURSIVE RowCount(_)
RowCount(frames) ==
    IF frames = <<>> THEN 0 ELSE Len(frames[1].rows) + RowCount(Tail(frames))

\* How many times row x occurs in a sequence of rows
Occurrences(rows, x) == Cardinality({n \in 1..Len(rows) : rows[n] = x})

\* The permutations of 1..n
Perms(n) == {f \in [1..n -> 1..n] : \A i, j \in 1..n : f[i] = f[j] => i = j}

\* C1: union_frames preserves every input row: the result's rows are the
\* input tables' rows in input order, each table's rows in their order
\* (every cell of an input row is found under its label), the row count is
\* the sum of the input row counts, and every permutation of the input list
\* yields the same multiset of rows.  (A call on a frame that carries a label
\* twice raises in reindex and has no result.)
C1_UnionPreservesRows ==
    uf_out.state = "returned" =>
      LET out == uf_out.frame
          Offset(i) == RowCount(SubSeq(uf_frames, 1, i - 1))
      IN  /\ Len(out.rows) = RowCount(uf_frames)
          /\ \A i \in 1..Len(uf_frames) :
               \A r \in 1..Len(uf_frames[i].rows) :
                 \A p \in 1..Len(uf_frames[i].columns) :
                   \E o \in 1..Len(out.columns) :
                     /\ out.columns[o] = uf_frames[i].columns[p]
                     /\ out.rows[Offset(i) + r][o] = uf_frames[i].rows[r][p]
          /\ \A f \in Perms(Len(uf_frames)) :
               LET other == union_frames([i \in 1..Len(uf_frames) |-> uf_frames[f[i]]])
               IN  \A x \in Range(out.rows) \cup Range(other.rows) :
                     Occurrences(out.rows, x) = Occurrences(other.rows, x)

\* Two frames with different columns, three rows in all, two of them equal,
\* have been unified.
C1_Witness ==
    /\ uf_out.state = "returned"
    /\ Len(uf_frames) = 2
    /\ uf_frames[1].columns # uf_frames[2].columns
    /\ Len(uf_frames[1].rows) = 2
    /\ uf_frames[1].rows[1] = uf_frames[1].rows[2]
    /\ Len(uf_out.frame.rows) = 3

\* C2: union_frames is column-complete: the result's column set is exactly
\* the union of the inputs' column sets, every result row has one cell per
\* result column, a row of a table that lacks a column carries the absent
\* marker there, and the empty list yields zero columns and zero rows
\* without an error.
C2_UnionColumnComplete ==
    /\ uf_out.state = "returned" =>
         LET out == uf_out.frame
             Offset(i) == RowCount(SubSeq(uf_frames, 1, i - 1))
         IN  /\ Range(out.columns) =
                  {c \in UNION {Range(f.columns) : f \in Range(uf_frames)} : TRUE}
             /\ UniqueLabels(out.columns)
             /\ \A n \in 1..Len(out.rows) : Len(out.rows[n]) = Len(out.columns)
             /\ \A i \in 1..Len(uf_frames) :
                  \A r \in 1..Len(uf_frames[i].rows) :
                    \A o \in 1..Len(out.columns) :
                      out.columns[o] \notin Range(uf_frames[i].columns)
                        => out.rows[Offset(i) + r][o] = Absent
    /\ (uf_frames = <<>> /\ uf_out.state # "pending") =>
         /\ uf_out.state = "returned"
         /\ uf_out.frame.columns = <<>>
         /\ uf_out.frame.rows = <<>>

\* A frame with columns b, a and one with column c have been unified: the
\* row of the second carries the absent marker under a and b.
C2_Witness ==
    /\ uf_out.state = "returned"
    /\ Len(uf_frames) = 2
    /\ uf_frames[1].columns = << <<"b">>, <<"a">> >>
    /\ uf_frames[2].columns = << <<"c">> >>
    /\ uf_out.frame.columns = << <<"a">>, <<"b">>, <<"c">> >>
    /\ Len(uf_frames[1].rows) = 2
    /\ uf_out.frame.rows[3][1] = Absent

-----------------------------------------------------------------------------
(* Claims about the loaders                                                *)

\* The key under which the running loader stores table t
KeyOf(t) == IF use_uploaded THEN slugify(t.name) ELSE t.name

\* The running loader cannot read table t
Unreadable(t) == IF use_uploaded THEN ~t.readable ELSE ReadSqlRaises(t)

\* The loader has returned or raised
LoaderDone == pc \in {"loaded", "crashed"}

\* C6: when two raw columns normalise to the same identifier the loaded
\* table keeps one column under it, holding the later raw column's values:
\* every loaded table has pairwise distinct column names and every row has
\* exactly the header's columns.
C6_LastWriteWins ==
    pc = "loaded" =>
      \A e \in Range(data_dict) :
        /\ UniqueLabels(e.frame.columns)
        /\ \A n \in 1..Len(e.frame.rows) :
              Len(e.frame.rows[n]) = Len(e.frame.columns)
        /\ \A i \in 1..Len(source) :
             LET t == source[i]
                 Last(p) == \A p2 \in (p + 1)..Len(t.columns) :
                               slugify(t.columns[p2]) # slugify(t.columns[p])
             IN  ( /\ KeyOf(t) = e.key
                   /\ ~Unreadable(t)
                   /\ \A j \in (i + 1)..Len(source) :
                         KeyOf(source[j]) # e.key \/ Unreadable(source[j]) )
                 => \A p \in 1..Len(t.columns) :
                      (Last(p) /\ slugify(t.columns[p]) \notin {C_izvor, C_godina})
                      => \A n \in 1..Len(t.rows) :
                           \A o \in Positions(e.frame.columns, slugify(t.columns[p])) :
                             e.frame.rows[n][o] = t.rows[n][p]

\* C7: every row of every loaded table carries in izvor_tablice the
\* normalised name of its source, with either loader, and in godina the
\* year found in the original name.
C7_OriginIsNormalizedName ==
    pc = "loaded" =>
      \A e \in Range(data_dict) :
        \E i \in 1..Len(source) :
          LET t == source[i]
          IN  /\ KeyOf(t) = e.key
              /\ \A n \in 1..Len(e.frame.rows) :
                   /\ \A o \in Positions(e.frame.columns, C_izvor) :
                        e.frame.rows[n][o] = Txt(slugify(t.name))
                   /\ \A o \in Positions(e.frame.columns, C_godina) :
                        e.frame.rows[n][o] = YearOf(t.name)
              /\ Positions(e.frame.columns, C_izvor) # {}
              /\ Positions(e.frame.columns, C_godina) # {}

\* C8: an unreadable table is not fatal with either loader: the loader
\* returns, the failure is reported for that table, the table is left out
\* and every other table is loaded.
C8_UnreadableTableNonFatal ==
    LoaderDone =>
      /\ pc = "loaded"
      /\ \A i \in 1..Len(source) :
           LET t == source[i]
           IN  IF Unreadable(t)
               THEN /\ t.name \in Range(warnings)
                    /\ \A e \in Range(data_dict) : e.key # KeyOf(t)
               ELSE \E e \in Range(data_dict) : e.key = KeyOf(t)

-----------------------------------------------------------------------------
(* Claims about the filter block                                           *)

\* a is a subsequence of b
RECURSIVE IsSubsequence(_, _)
IsSubsequence(a, b) ==
    IF a = <<>> THEN TRUE
    ELSE IF b = <<>> THEN FALSE
    ELSE IF a[1] = b[1] THEN IsSubsequence(Tail(a), Tail(b))
    ELSE IsSubsequence(a, Tail(b))

NoPredicate == q = <<>> /\ godine = {} /\ kat = {} /\ klub = {}

\* C3: the filtered view has the unified table's columns, its rows are a
\* subsequence of the unified table's rows with their values unchanged, and
\* with every predicate empty the filtered view equals the unified table.
C3_FilterIsSubset ==
    pc = "shown" =>
      /\ fdf.columns = df.columns
      /\ IsSubsequence(fdf.rows, df.rows)
      /\ NoPredicate => fdf = df

\* Every predicate has been emptied by the user (the years were selected by
\* default) and the view of a table of three or more rows is shown.
C3_Witness ==
    /\ pc = "shown"
    /\ NoPredicate
    /\ g_sel(df) # {}
    /\ Len(df.rows) >= 3
    /\ fdf = df

\* The cells of row n of df under label c
CellAt(n, c) == df.rows[n][CHOOSE o \in Positions(df.columns, c) : TRUE]

\* Row n of df passes the year, category and club selections: a selection
\* that is empty, or whose column is not resolved, lets every row pass.
PassesSelections(n) ==
    /\ godine = {} \/ CellAt(n, C_godina) \in godine
    /\ \/ kat = {} \/ roles.col_kat = None
       \/ CellAt(n, roles.col_kat).k = "str" /\ CellAt(n, roles.col_kat).v \in kat
    /\ \/ klub = {} \/ roles.col_klub = None
       \/ CellAt(n, roles.col_klub).k = "str" /\ CellAt(n, roles.col_klub).v \in klub

\* The view holds exactly the rows of df that pass the selections and Keep,
\* in df's order.
ViewIs(Keep(_)) ==
    fdf.rows = SelectRows(df.rows,
                 [n \in 1..Len(df.rows) |-> PassesSelections(n) /\ Keep(n)])

\* term occurs in text as a plain substring, letter case ignored
SubstringNoCase(term, text) == Contains(Lower(text), Lower(term))

C10_DefaultViewShowsAll ==
    (pc = "shown" /\ q = <<>> /\ godine = g_sel(df) /\ kat = {} /\ klub = {})
      => fdf.rows = df.rows

====
